---- MODULE Spec2Model ----
(***************************************************************************)
(* Model of the prediction-market plugin: the MarketLogic engine (pool     *)
(* invariant, odds derivation, trade ledger, replay) and the PredictionView *)
(* that loads a document into it, in src/PredictionView.ts lines 1-418.     *)
(*                                                                         *)
(* Specifications.  Spec: the calls of MarketLogic.  SpecView: the         *)
(* handlers of PredictionView.  SpecPool: the poolBet calls of replay's    *)
(* loop, one per step.  SpecReplay: replay() on the ledgers of a few       *)
(* placeBet calls.                                                         *)
(*                                                                         *)
(* Numbers.  The program computes in IEEE doubles with Math.log2 and       *)
(* Math.pow.  The model computes in binary fixed point: a real r is the    *)
(* integer floor(r * Scale).  Log2, Pow2, MulFx and DivFx are the fixed    *)
(* point versions of Math.log2, Math.pow(2, .), * and /; sums and          *)
(* differences are exact.  NaN and the infinities are outside the model.   *)
(*                                                                         *)
(* Aliasing.  replay() pushes {...bet, ...}: a shallow copy whose `size`   *)
(* is the very object of the ledger's bet.  A copied bet therefore holds   *)
(* size = [ref |-> lt], the ledger key whose size object it shares, and a  *)
(* reader sees the ledger's current mana and direction through it (Deref). *)
(***************************************************************************)
EXTENDS Integers, Sequences, FiniteSets, TLC

VARIABLES
    bets,        \* MarketLogic.bets: Map<number, Bet>, a function key -> Bet
    pool,        \* MarketLogic.pool: <<YES pool, NO pool>>, fixed point
    result,      \* what the last replay() call returned (NoResult before any)
    thrown,      \* the exception the last call let escape to its caller
    op,          \* the last call: [name, lt]
    replays,     \* replay() calls since the ledger was last written (capped)
    computedFor, \* history: the sizes the last replay computed the derived fields for
    market,      \* PredictionView.market (Undefined or a MarketData)
    form,        \* the bet form of the last completed drawMe is in the DOM
    editIndex,   \* index of the open edit form (NoEdit when none)
    issued       \* history: the last poolBet call of the trade-step walk (PoolBetCall)

vars == <<bets, pool, result, thrown, op, replays, computedFor, market, form, editIndex,
          issued>>

-----------------------------------------------------------------------------
(* Bounds and input sets *)

MaxBets == 2        \* place calls are explored while the ledger is smaller
MaxDocBets == 2     \* bet entries of a loaded document

Directions == {"YES", "NO"}
Trades == {<<50, "YES">>, <<50, "NO">>, <<-100, "YES">>}   \* (amount, direction) arguments
NoComment == "undefined"
Comments == {NoComment, "why"}

-----------------------------------------------------------------------------
(* Fixed point arithmetic *)

Scale == 2^12
Fx(n) == n * Scale

Min(a, b) == IF a < b THEN a ELSE b
Abs(a) == IF a < 0 THEN -a ELSE a

\* a * b for a >= 0, without leaving 32 bits
MulFx(a, b) == (a \div Scale) * b + ((a % Scale) * b) \div Scale

RECURSIVE FracBits(_, _, _, _)
FracBits(r, b, bit, acc) ==
    IF bit = 0 THEN acc
    ELSE IF 2 * r >= b THEN FracBits(2 * r - b, b, bit \div 2, acc + bit)
         ELSE FracBits(2 * r, b, bit \div 2, acc)

\* a / b for a >= 0, b > 0: floor(a * Scale / b) by long division
DivFx(a, b) == (a \div b) * Scale + FracBits(a % b, b, Scale \div 2, 0)

RECURSIVE Log2Norm(_, _)
Log2Norm(m, e) ==
    IF m >= 2 * Scale THEN Log2Norm(m \div 2, e + 1)
    ELSE IF m < Scale THEN Log2Norm(m * 2, e - 1)
    ELSE <<m, e>>

RECURSIVE Log2Frac(_, _, _)
Log2Frac(m, bit, acc) ==
    IF bit = 0 THEN acc
    ELSE LET sq == (m * m) \div Scale IN
         IF sq >= 2 * Scale THEN Log2Frac(sq \div 2, bit \div 2, acc + bit)
         ELSE Log2Frac(sq, bit \div 2, acc)

\* Math.log2(x) for x > 0, from the normalised <<mantissa, exponent>> of x
Log2Parts(ne) == ne[2] * Scale + Log2Frac(ne[1], Scale \div 2, 0)

Log2(x) == Log2Parts(Log2Norm(x, 0))

\* round(2^(2^-i) * Scale), i = 1..12
Pow2Table == <<5793, 4871, 4467, 4277, 4186, 4141, 4118, 4107, 4102, 4099, 4097, 4097>>

RECURSIVE Pow2Frac(_, _, _, _)
Pow2Frac(f, i, bit, acc) ==
    IF bit = 0 THEN acc
    ELSE IF f >= bit
         THEN Pow2Frac(f - bit, i + 1, bit \div 2, (acc * Pow2Table[i]) \div Scale)
         ELSE Pow2Frac(f, i + 1, bit \div 2, acc)

\* Math.pow(2, e), from the integer part of e and the power of its fraction
Pow2Parts(ip, mant) == IF ip >= 0 THEN mant * 2^ip ELSE mant \div 2^(-ip)

Pow2(e) == Pow2Parts(e \div Scale, Pow2Frac(e % Scale, 1, Scale \div 2, Scale))

-----------------------------------------------------------------------------
(* MarketLogic *)

Undefined == "undefined"              \* undefined where a string is expected
UndefinedObj == [undefined |-> TRUE]  \* undefined where an object is expected
IsDefined(x) == "undefined" \notin DOMAIN x
NoResult == UndefinedObj
NoException == "none"
NoEdit == -1

Genesis == <<Fx(512), Fx(512)>>

\* variant: the invariant is the sum of the logarithms
KSum == Log2(Genesis[1]) + Log2(Genesis[2])

\* constructor: this.k = Math.log2(this.pool[0]) * Math.log2(this.pool[1])
K == MulFx(Log2(Genesis[1]), Log2(Genesis[2]))

\* poolBet: this.pool = [newY, newN]; return shares, for the side that is solved
PoolBetYes(y, n, newY) == [pool |-> <<newY, n>>, shares |-> y - newY]
PoolBetNo(y, n, newN) == [pool |-> <<y, newN>>, shares |-> n - newN]

\* poolBet: Math.pow(2, this.k / Math.log2(side))
Solve(side) == Pow2(DivFx(K, Log2(side)))

\* poolBet(amount, flip) on pool p: the new pool and the shares it returns
PoolBetCalc(p, amount, flip) ==
    IF ~flip
    THEN PoolBetYes(p[1] + amount, p[2] + amount, Solve(p[2] + amount))
    ELSE PoolBetNo(p[1] + amount, p[2] + amount, Solve(p[1] + amount))

\* computeState: log2odds = Math.log2(probability / (1 - probability))
StateOf(probability) ==
    [log2odds |-> Log2(DivFx(probability, Scale - probability)),
     probability |-> probability]

\* computeState: probability = (n * logN) / (n * logN + y * logY)
Probability(nLogN, yLogY) == DivFx(nLogN, nLogN + yLogY)

\* computeState() on pool p
ComputeStateCalc(p) ==
    StateOf(Probability(MulFx(p[2], Log2(p[2])), MulFx(p[1], Log2(p[1]))))

\* Evaluation cache: PoolBetCalc and ComputeStateCalc tabulated once on the pools that
\* trades of the input amounts reach from genesis; PoolBet and ComputeState look a
\* value up there and compute it when it is not tabulated.
CacheDepth == IF MaxBets > MaxDocBets THEN MaxBets ELSE MaxDocBets
CacheAmounts == {Fx(Abs(trade[1])) : trade \in Trades}

RECURSIVE PoolsWithin(_)
PoolsWithin(n) ==
    IF n = 0 THEN {Genesis}
    ELSE LET prev == PoolsWithin(n - 1)
         IN prev \cup {PoolBetCalc(p, a, f).pool : p \in prev, a \in CacheAmounts, f \in BOOLEAN}

CachedPools == PoolsWithin(CacheDepth)

PoolBetCache ==
    [x \in CachedPools \X CacheAmounts \X BOOLEAN |-> PoolBetCalc(x[1], x[2], x[3])]

ComputeStateCache == [p \in CachedPools |-> ComputeStateCalc(p)]

PoolBet(p, amount, flip) ==
    IF <<p, amount, flip>> \in DOMAIN PoolBetCache
    THEN PoolBetCache[<<p, amount, flip>>]
    ELSE PoolBetCalc(p, amount, flip)

ComputeState(p) ==
    IF p \in CachedPools THEN ComputeStateCache[p] ELSE ComputeStateCalc(p)

MinKey(keys) == CHOOSE k \in keys : \A j \in keys : k <= j

\* variant: replay() keeps the pool the previous call left
ReplayStartKeep(p) == p

\* replay(): this.pool = [512, 512]
ReplayStart(p) == Genesis

\* variant: every trade spends its amount
ManaStepSpend(mana, amount, flip) == mana - amount

\* replay(): mana += amount (NO) or mana -= amount (YES)
ManaStep(mana, amount, flip) == IF flip THEN mana + amount ELSE mana - amount

\* replay(): the totals and the pushed copy of the bet, once poolBet returned pb
Stepped(acc, lt, bet, flip, pb) ==
    [pool |-> pb.pool,
     sy |-> IF flip THEN acc.sy ELSE acc.sy + pb.shares,
     sn |-> IF flip THEN acc.sn + pb.shares ELSE acc.sn,
     mana |-> ManaStep(acc.mana, bet.size.mana, flip),
     bets |-> Append(acc.bets,
               [timestamp |-> bet.timestamp,
                size |-> [ref |-> lt],
                comment |-> bet.comment,
                sharesReceived |-> pb.shares,
                log2oddsBefore |-> ComputeState(acc.pool).log2odds,
                log2oddsAfter |-> ComputeState(pb.pool).log2odds])]

\* replay(): one iteration of the loop over the entries sorted by key
ReplayStep(acc, lt, bet) ==
    Stepped(acc, lt, bet, bet.size.direction = "NO",
            PoolBet(acc.pool, Fx(Abs(bet.size.mana)), bet.size.direction = "NO"))

\* Chronological rank of a timestamp
TimeRank(t) == IF t = "t1" THEN 1 ELSE 2

\* variant: the entries are visited in timestamp order, ties in key order
NextEntryByTime(b, keys) ==
    CHOOSE k \in keys : \A j \in keys :
        \/ TimeRank(b[k].timestamp) < TimeRank(b[j].timestamp)
        \/ TimeRank(b[k].timestamp) = TimeRank(b[j].timestamp) /\ k <= j

\* replay(): Array.from(this.bets.entries()).sort(([a], [b]) => a - b), the entry
\* the loop visits next among those with keys in `keys`
NextEntry(b, keys) == MinKey(keys)

RECURSIVE ReplayLoop(_, _, _)
ReplayLoop(b, keys, acc) ==
    IF keys = {} THEN acc
    ELSE ReplayLoop(b, keys \ {NextEntry(b, keys)},
                    ReplayStep(acc, NextEntry(b, keys), b[NextEntry(b, keys)]))

\* replay(): the pool and totals before the loop
ReplayAcc(p) == [pool |-> ReplayStart(p), sy |-> 0, sn |-> 0, mana |-> 0, bets |-> <<>>]

\* variant: opposing holdings are not netted
RedeemedNone(sy, sn) == 0

\* replay(): const redeemed = Math.min(sy, sn)
Redeemed(sy, sn) == Min(sy, sn)

\* replay(): the returned object, and the pool left, for the totals acc of the loop
Returned(acc) ==
    [ret |-> [yesShares |-> acc.sy - Redeemed(acc.sy, acc.sn),
              noShares |-> acc.sn - Redeemed(acc.sy, acc.sn),
              mana |-> acc.mana,
              bets |-> acc.bets],
     pool |-> acc.pool]

\* replay() on ledger b with this.pool = p
Replay(b, p) == Returned(ReplayLoop(b, DOMAIN b, ReplayAcc(p)))

\* The sizes a replay of ledger b reads, in iteration order
RECURSIVE SizesOf(_, _)
SizesOf(b, keys) ==
    IF keys = {} THEN <<>>
    ELSE <<b[MinKey(keys)].size>> \o SizesOf(b, keys \ {MinKey(keys)})

\* variant: the key is the last index in use
NextKeyLast(b) == IF DOMAIN b = {} THEN 0 ELSE Cardinality(DOMAIN b) - 1

\* placeBet(): const lt = this.bets.size
NextKey(b) == Cardinality(DOMAIN b)

\* variant: the timestamp argument is ignored (placeBet of the older copy, line 541)
StampNow(timestamp, now) == now

\* placeBet(): timestamp ?? new Date().toISOString()
StampOf(timestamp, now) == IF timestamp = Undefined THEN now ELSE timestamp

\* placeBet(): the Bet it builds
NewBet(amount, direction, comment, timestamp, now) ==
    [timestamp |-> StampOf(timestamp, now),
     size |-> [mana |-> amount, direction |-> direction],
     comment |-> comment,
     sharesReceived |-> 0,
     log2oddsBefore |-> 0,
     log2oddsAfter |-> 0]

\* placeBet(): this.bets.set(lt, bet)
Placed(b, amount, direction, comment, timestamp, now) ==
    LET lt == NextKey(b) IN
    [k \in DOMAIN b \cup {lt} |->
        IF k = lt THEN NewBet(amount, direction, comment, timestamp, now) ELSE b[k]]

\* variant: the key one past the end passes the check
BetMissingPastEnd(b, lt) == lt > Cardinality(DOMAIN b)

\* updateBet(): if (!this.bets.has(lt)) throw new Error('Bet not found')
BetMissing(b, lt) == lt \notin DOMAIN b

\* variant: the bet is replaced by a freshly built one
UpdatedRebuilt(b, lt, amount, direction, comment) ==
    [b EXCEPT ![lt] = NewBet(amount, direction, comment, Undefined, "t2")]

\* updateBet(): the three assignments to the bet found
Updated(b, lt, amount, direction, comment) ==
    [b EXCEPT ![lt].size = [mana |-> amount, direction |-> direction],
              ![lt].comment = comment]

\* new MarketLogic(): the empty Map
NoBets == [k \in {} |-> UndefinedObj]

\* What a reader of a bet copied by replay sees in its size
Deref(b, snap) == b[snap.size.ref].size

Init ==
    /\ bets = NoBets
    /\ pool = Genesis
    /\ result = NoResult
    /\ thrown = NoException
    /\ op = [name |-> "new", lt |-> -1]
    /\ replays = 0
    /\ computedFor = <<>>
    /\ market = UndefinedObj
    /\ form = FALSE
    /\ editIndex = NoEdit
    /\ issued = UndefinedObj

viewVars == <<market, form, editIndex>>

PlaceBet(amount, direction, comment, timestamp, now) ==
    /\ Cardinality(DOMAIN bets) < MaxBets
    /\ bets' = Placed(bets, amount, direction, comment, timestamp, now)
    /\ op' = [name |-> "placeBet", lt |-> NextKey(bets)]
    /\ thrown' = NoException
    /\ replays' = 0
    /\ UNCHANGED <<pool, result, computedFor, viewVars, issued>>

UpdateBet(lt, amount, direction, comment) ==
    /\ op' = [name |-> "updateBet", lt |-> lt]
    /\ IF BetMissing(bets, lt)
       THEN /\ thrown' = "Bet not found"
            /\ UNCHANGED <<bets, replays>>
       ELSE /\ thrown' = NoException
            /\ bets' = Updated(bets, lt, amount, direction, comment)
            /\ replays' = 0
    /\ UNCHANGED <<pool, result, computedFor, viewVars, issued>>

\* replay() returning r
Replayed(r) ==
    /\ result' = r.ret
    /\ pool' = r.pool

ReplayCall ==
    /\ Replayed(Replay(bets, pool))
    /\ computedFor' = SizesOf(bets, DOMAIN bets)
    /\ op' = [name |-> "replay", lt |-> -1]
    /\ thrown' = NoException
    /\ replays' = Min(replays + 1, 2)
    /\ UNCHANGED <<bets, viewVars, issued>>

Next ==
    \/ \E trade \in Trades, comment \in Comments, timestamp \in {"t1", Undefined} :
         PlaceBet(trade[1], trade[2], comment, timestamp, "t1")
    \/ \E lt \in 0..Cardinality(DOMAIN bets), trade \in Trades, comment \in Comments :
         UpdateBet(lt, trade[1], trade[2], comment)
    \/ ReplayCall

Spec == Init /\ [][Next]_vars

-----------------------------------------------------------------------------
(* PredictionView *)

\* Documents handed to setViewData, as JSON.parse sees them.  shape:
\*   "syntax error"  JSON.parse throws (the empty string, unparseable text)
\*   "null"          parses to null
\*   "no bets"       parses to a value without a bets list
\*   "object"        parses to an object with a bets list
StalePool == [yesShares |-> Fx(600), noShares |-> Fx(500), k |-> Fx(7)]
FreshPool == [yesShares |-> Fx(512), noShares |-> Fx(512), k |-> K]

DocSizes == {UndefinedObj} \cup
            {[mana |-> 50, direction |-> "YES"], [mana |-> 50, direction |-> "NO"],
             [mana |-> -100, direction |-> "YES"]}

PositiveSizes == {sz \in DocSizes : IsDefined(sz) /\ sz.mana > 0}
YesSizes == {sz \in PositiveSizes : sz.direction = "YES"}

\* How a document's pool, timestamps, comments and stored (derived) values vary, and
\* the sizes its bet entries take
DocVariants ==
    {[pool |-> FreshPool, stored |-> 0, first |-> "t1", comment |-> NoComment,
      sizes |-> DocSizes],
     [pool |-> StalePool, stored |-> Fx(7), first |-> "t2", comment |-> "why",
      sizes |-> PositiveSizes],
     [pool |-> UndefinedObj, stored |-> 0, first |-> "t1", comment |-> NoComment,
      sizes |-> YesSizes]}

OtherStamp(t) == IF t = "t1" THEN "t2" ELSE "t1"

DocBet(size, comment, timestamp, stored) ==
    [timestamp |-> timestamp, size |-> size, comment |-> comment,
     sharesReceived |-> stored, log2oddsBefore |-> stored, log2oddsAfter |-> stored]

\* The bet lists of the documents of variant v: the first entry carries the
\* variant's comment and timestamp, the following ones alternate
DocBetLists(v) ==
    UNION {{[i \in 1..n |-> DocBet(sz[i],
                              IF i % 2 = 1 THEN v.comment ELSE NoComment,
                              IF i % 2 = 1 THEN v.first ELSE OtherStamp(v.first),
                              v.stored)] :
              sz \in [1..n -> v.sizes]} : n \in 0..MaxDocBets}

ObjectDoc(v, bs) ==
    [shape |-> "object", name |-> "Rain", bets |-> bs, pool |-> v.pool,
     log2odds |-> v.stored, userShares |-> v.stored]

ShapeDoc(shape) ==
    [shape |-> shape, name |-> "Rain", bets |-> <<>>, pool |-> FreshPool,
     log2odds |-> 0, userShares |-> 0]

Docs == {ShapeDoc("syntax error"), ShapeDoc("null"), ShapeDoc("no bets")} \cup
        UNION {{ObjectDoc(v, bs) : bs \in DocBetLists(v)} : v \in DocVariants}

\* setViewData: the fallback market of the catch block
DefaultMarket ==
    [name |-> "Prediction Market",
     bets |-> <<>>,
     pool |-> [yesShares |-> Fx(512), noShares |-> Fx(512),
               k |-> MulFx(Log2(Fx(512)), Log2(Fx(512)))],
     log2odds |-> 0,
     userShares |-> 0]

\* setViewData: the try block throws (JSON.parse, 'parser fault', or a TypeError on
\* market.bets.forEach or bet.size.mana)
TryThrows(doc) ==
    \/ doc.shape # "object"
    \/ \E i \in 1..Len(doc.bets) : ~IsDefined(doc.bets[i].size)

\* setViewData: market.bets.forEach(bet => logic.placeBet(mana, direction, comment, timestamp))
RECURSIVE PlaceAll(_, _, _)
PlaceAll(b, entries, now) ==
    IF entries = <<>> THEN b
    ELSE LET bet == Head(entries)
         IN PlaceAll(Placed(b, bet.size.mana, bet.size.direction, bet.comment,
                            bet.timestamp, now),
                     Tail(entries), now)

\* setViewData: this.market after the try/catch
MarketOfDoc(doc) ==
    IF TryThrows(doc) THEN DefaultMarket
    ELSE [name |-> doc.name, bets |-> doc.bets, pool |-> doc.pool,
          log2odds |-> doc.log2odds, userShares |-> doc.userShares]

\* setViewData: this.logic.bets after the try/catch
LedgerOfDoc(doc, now) ==
    IF TryThrows(doc) THEN NoBets ELSE PlaceAll(NoBets, doc.bets, now)

\* drawMe: this.market.userShares = yesShares > noShares ? yesShares : -noShares
UserShares(r) == IF r.yesShares > r.noShares THEN r.yesShares ELSE -r.noShares

\* drawMe: reading this.market.pool.k throws when the market has no pool
DrawThrows(m) == IsDefined(m) /\ ~IsDefined(m.pool)

\* drawMe, lines 227-236: the market it leaves, for market m and the replay r
DrawnMarket(m, r) ==
    [m EXCEPT !.bets = r.ret.bets,
              !.log2odds = ComputeState(r.pool).log2odds,
              !.userShares = UserShares(r.ret),
              !.pool = IF DrawThrows(m) THEN m.pool
                       ELSE [yesShares |-> r.pool[1],
                             noShares |-> r.pool[2],
                             k |-> m.pool.k]]

\* drawMe with a market: what replay r and lines 228-236 leave
Drawn(m, b, r) ==
    /\ market' = DrawnMarket(m, r)
    /\ pool' = r.pool
    /\ computedFor' = SizesOf(b, DOMAIN b)

\* drawMe as a step: container.empty() removes the forms, replay() runs when there is
\* a market, and the bet form is rebuilt when nothing threw
DrawMe(m, b, p) ==
    /\ IF IsDefined(m)
       THEN Drawn(m, b, Replay(b, p))
       ELSE /\ market' = m
            /\ pool' = p
            /\ computedFor' = computedFor
    /\ thrown' = IF DrawThrows(m) THEN "TypeError" ELSE NoException
    /\ form' = (IsDefined(m) /\ ~DrawThrows(m))
    /\ editIndex' = NoEdit

SetViewData(doc, now) ==
    /\ bets' = LedgerOfDoc(doc, now)
    /\ DrawMe(MarketOfDoc(doc), bets', Genesis)
    /\ op' = [name |-> "setViewData", lt |-> -1, doc |-> doc]
    /\ UNCHANGED <<result, replays, issued>>

Clear ==
    /\ market' = UndefinedObj
    /\ bets' = NoBets
    /\ pool' = Genesis
    /\ op' = [name |-> "clear", lt |-> -1]
    /\ thrown' = NoException
    /\ UNCHANGED <<result, replays, computedFor, form, editIndex, issued>>

\* The form's amount check: isNaN(amount) || amount <= 0
InvalidAmount(amount) == amount <= 0

\* betButton click handler
BetClick(amount, direction, comment, now) ==
    /\ form
    /\ Cardinality(DOMAIN bets) < MaxBets
    /\ op' = [name |-> "betClick", lt |-> -1]
    /\ IF InvalidAmount(amount)
       THEN /\ thrown' = NoException
            /\ UNCHANGED <<bets, pool, computedFor, market, form, editIndex>>
       ELSE /\ bets' = Placed(bets, amount, direction, comment, Undefined, now)
            /\ DrawMe(market, bets', pool)
    /\ UNCHANGED <<result, replays, issued>>

\* chart onClick on the point of bet `index`: showEditForm(bet, index, event)
ChartClick(index) ==
    /\ form
    /\ IsDefined(market)
    /\ index \in 0..(Len(market.bets) - 1)
    /\ editIndex' = index
    /\ op' = [name |-> "chartClick", lt |-> index]
    /\ thrown' = NoException
    /\ UNCHANGED <<bets, pool, result, replays, computedFor, market, form, issued>>

\* saveButton click handler of the open edit form
SaveClick(amount, direction, comment) ==
    /\ editIndex # NoEdit
    /\ op' = [name |-> "saveClick", lt |-> editIndex]
    /\ IF InvalidAmount(amount)
       THEN /\ thrown' = NoException
            /\ UNCHANGED <<bets, pool, computedFor, market, form, editIndex>>
       ELSE IF BetMissing(bets, editIndex)
       THEN /\ thrown' = "Bet not found"
            /\ UNCHANGED <<bets, pool, computedFor, market, form, editIndex>>
       ELSE /\ bets' = Updated(bets, editIndex, amount, direction, comment)
            /\ DrawMe(market, bets', pool)
    /\ UNCHANGED <<result, replays, issued>>

\* cancelButton click handler
CancelClick ==
    /\ editIndex # NoEdit
    /\ editIndex' = NoEdit
    /\ op' = [name |-> "cancelClick", lt |-> -1]
    /\ thrown' = NoException
    /\ UNCHANGED <<bets, pool, result, replays, computedFor, market, form, issued>>

NextView ==
    \/ \E doc \in Docs : SetViewData(doc, "t1")
    \/ Clear
    \/ \E trade \in Trades, comment \in Comments :
         BetClick(trade[1], trade[2], comment, "t2")
    \/ \E index \in 0..MaxDocBets : ChartClick(index)
    \/ \E trade \in Trades, comment \in Comments :
         SaveClick(trade[1], trade[2], comment)
    \/ CancelClick

SpecView == Init /\ [][NextView]_vars

-----------------------------------------------------------------------------
(* The trade step on its own *)

\* Amounts handed to poolBet, in fixed point: one unit in the last place, the
\* smallest amounts above zero, and whole amounts
PoolAmounts == {1, 2, Fx(1), Fx(50), Fx(100), Fx(1000)}

\* One poolBet(amount, flip) call on the pool the calls before it left: the walk of
\* replay's loop, one call per step, from the genesis pool
PoolBetCall(amount, flip) ==
    /\ (IF IsDefined(issued) THEN issued.calls ELSE 0) < MaxBets
    /\ pool' = PoolBetCalc(pool, amount, flip).pool
    /\ issued' = [calls |-> (IF IsDefined(issued) THEN issued.calls ELSE 0) + 1,
                  before |-> pool, amount |-> amount, flip |-> flip,
                  shares |-> PoolBetCalc(pool, amount, flip).shares]
    /\ op' = [name |-> "poolBet", lt |-> -1]
    /\ UNCHANGED <<bets, result, thrown, replays, computedFor, viewVars>>

NextPool == \E amount \in PoolAmounts, flip \in BOOLEAN : PoolBetCall(amount, flip)

SpecPool == Init /\ [][NextPool]_vars

-----------------------------------------------------------------------------
(* replay() on the ledgers of a few placeBet calls *)

ScenarioTrades == {1, 50, 100, 1000} \X Directions

\* The ledger after placeBet(amount, direction) for each trade of the sequence
RECURSIVE PlaceTrades(_, _)
PlaceTrades(b, trades) ==
    IF trades = <<>> THEN b
    ELSE PlaceTrades(Placed(b, Head(trades)[1], Head(trades)[2], NoComment, Undefined, "t1"),
                     Tail(trades))

ScenarioLedgers ==
    UNION {{PlaceTrades(NoBets, trades) : trades \in [1..n -> ScenarioTrades]} :
             n \in 0..MaxBets}

InitReplay ==
    /\ bets \in ScenarioLedgers
    /\ pool = Genesis
    /\ result = NoResult
    /\ thrown = NoException
    /\ op = [name |-> "new", lt |-> -1]
    /\ replays = 0
    /\ computedFor = <<>>
    /\ market = UndefinedObj
    /\ form = FALSE
    /\ editIndex = NoEdit
    /\ issued = UndefinedObj

SpecReplay == InitReplay /\ [][ReplayCall]_vars

-----------------------------------------------------------------------------
(* Properties *)

\* The keys of ledger b in the order replay visits them
RECURSIVE SortedKeys(_)
SortedKeys(keys) ==
    IF keys = {} THEN <<>>
    ELSE <<MinKey(keys)>> \o SortedKeys(keys \ {MinKey(keys)})

\* Sum of the NO amounts minus sum of the YES amounts of the trades with keys in `keys`
RECURSIVE NetMana(_, _)
NetMana(b, keys) ==
    IF keys = {} THEN 0
    ELSE LET k == CHOOSE x \in keys : TRUE
             signed == IF b[k].size.direction = "NO" THEN b[k].size.mana
                       ELSE -b[k].size.mana
         IN signed + NetMana(b, keys \ {k})

\* |sy - sn| of the totals a replay loop accumulated
TotalsGap(acc) == Abs(acc.sy - acc.sn)

\* The result is that of a replay of the ledger as it is now
ResultCurrent == replays >= 1 /\ IsDefined(result)

\* C1: a replay() that follows a replay() with no place/amend in between returns the
\* same result, field for field, and leaves the same pool.
C1_ReplayIdempotent ==
    [][(op'.name = "replay" /\ replays >= 1) => (result' = result /\ pool' = pool)]_vars

C1_Witness == replays = 2 /\ Cardinality(DOMAIN bets) = 2

\* C2: updateBet with a key that is not in the ledger throws 'Bet not found' to its
\* caller and leaves the ledger, the pool and the last result as they were, so a
\* replay after it gives what the replay before it gave.
C2_AmendMissingFails ==
    [][(op'.name = "updateBet" /\ op'.lt \notin DOMAIN bets) =>
          /\ thrown' = "Bet not found"
          /\ bets' = bets
          /\ pool' = pool
          /\ result' = result
          /\ (replays >= 1 /\ IsDefined(result)) => Replay(bets', pool').ret = result]_vars

C2_Witness ==
    op.name = "updateBet" /\ thrown = "Bet not found" /\ Cardinality(DOMAIN bets) >= 1

\* C3: no trade with amount <= 0 is ever stored in the ledger.
C3_NoNonPositiveAmount == \A lt \in DOMAIN bets : bets[lt].size.mana > 0

\* C4: setViewData lets no exception escape, and a document that cannot be turned into
\* a market snapshot leaves the default market and an empty ledger.
C4_LoadNeverThrows ==
    op.name = "setViewData" =>
        /\ thrown = NoException
        /\ (op.doc.shape # "object" \/ ~IsDefined(op.doc.pool)
            \/ \E i \in 1..Len(op.doc.bets) : ~IsDefined(op.doc.bets[i].size))
           => (market = DefaultMarket /\ bets = NoBets)

\* C5: the holdings replay returns are netted: the smaller is 0 and the other is the
\* absolute difference of the accumulated YES and NO share totals.
C5_RedemptionNetting ==
    IsDefined(result) =>
        /\ Min(result.yesShares, result.noShares) = 0
        /\ ResultCurrent =>
             result.yesShares + result.noShares = TotalsGap(ReplayLoop(bets, DOMAIN bets, ReplayAcc(Genesis)))

C5_Witness ==
    /\ ResultCurrent
    /\ result.yesShares + result.noShares > 0
    /\ \E a, b \in DOMAIN bets :
          bets[a].size.direction = "YES" /\ bets[b].size.direction = "NO"

\* C6: placeBet succeeds and stores the new trade under the key equal to the ledger's
\* size before the call, leaving every stored trade as it was; the keys of the ledger
\* are always exactly 0 .. size-1.
C6_PlaceAssignsNextId ==
    /\ [](DOMAIN bets = 0..(Cardinality(DOMAIN bets) - 1))
    /\ [][op'.name = "placeBet" =>
            /\ thrown' = NoException
            /\ Cardinality(DOMAIN bets) \notin DOMAIN bets
            /\ DOMAIN bets' = DOMAIN bets \cup {Cardinality(DOMAIN bets)}
            /\ \A k \in DOMAIN bets : bets'[k] = bets[k]]_vars

C6_Witness == op.name = "placeBet" /\ Cardinality(DOMAIN bets) = 2

\* C7: a successful updateBet(lt, ...) leaves the keys and their order, the timestamp
\* and derived fields of trade lt, and every other trade unchanged.
C7_AmendFrame ==
    [][(op'.name = "updateBet" /\ thrown' = NoException) =>
          /\ DOMAIN bets' = DOMAIN bets
          /\ SortedKeys(DOMAIN bets') = SortedKeys(DOMAIN bets)
          /\ \A k \in DOMAIN bets : k # op'.lt => bets'[k] = bets[k]
          /\ bets'[op'.lt].timestamp = bets[op'.lt].timestamp
          /\ bets'[op'.lt].sharesReceived = bets[op'.lt].sharesReceived
          /\ bets'[op'.lt].log2oddsBefore = bets[op'.lt].log2oddsBefore
          /\ bets'[op'.lt].log2oddsAfter = bets[op'.lt].log2oddsAfter]_vars

C7_Witness ==
    /\ op.name = "updateBet" /\ thrown = NoException
    /\ Cardinality(DOMAIN bets) = 2
    /\ bets[op.lt].timestamp = "t1"

\* C8: loading a document whose n bet entries all have a size leaves a ledger with
\* keys 0 .. n-1 in which trade i has the mana, direction, comment and timestamp of
\* the document's i-th entry.
C8_LoadRebuildsLedger ==
    (/\ op.name = "setViewData"
     /\ op.doc.shape = "object"
     /\ \A i \in 1..Len(op.doc.bets) : IsDefined(op.doc.bets[i].size))
    => /\ DOMAIN bets = 0..(Len(op.doc.bets) - 1)
       /\ \A i \in 1..Len(op.doc.bets) :
             /\ bets[i - 1].size = op.doc.bets[i].size
             /\ bets[i - 1].comment = op.doc.bets[i].comment
             /\ bets[i - 1].timestamp = op.doc.bets[i].timestamp

C8_Witness ==
    /\ op.name = "setViewData"
    /\ op.doc.shape = "object"
    /\ Len(op.doc.bets) = 2
    /\ Cardinality(DOMAIN bets) = 2
    /\ op.doc.bets[1].timestamp = "t2"
    /\ op.doc.bets[1].comment = "why"

\* C9: a bet of the last replay result whose size no longer is the one its derived
\* fields were computed for shows no derived values.
C9_AmendInvalidatesDerived ==
    IsDefined(result) =>
        \A i \in 1..Len(result.bets) :
            Deref(bets, result.bets[i]) # computedFor[i] =>
                /\ result.bets[i].sharesReceived = 0
                /\ result.bets[i].log2oddsBefore = 0
                /\ result.bets[i].log2oddsAfter = 0

\* C10: the mana replay returns is the sum of the NO amounts minus the sum of the YES
\* amounts of the ledger; YES 50 followed by NO 50 gives 0.
C10_ManaIsNetAmount ==
    ResultCurrent => result.mana = NetMana(bets, DOMAIN bets)

C10_Witness ==
    /\ ResultCurrent
    /\ DOMAIN bets = {0, 1}
    /\ bets[0].size = [mana |-> 50, direction |-> "YES"]
    /\ bets[1].size = [mana |-> 50, direction |-> "NO"]
    /\ result.mana = 0

\* C11: poolBet with an amount > 0 on a pool whose two sides both exceed 1 issues
\* shares >= 0.
C11_SharesNonNegative ==
    (/\ IsDefined(issued)
     /\ issued.amount > 0
     /\ issued.before[1] > Fx(1)
     /\ issued.before[2] > Fx(1))
    => issued.shares >= 0

\* The ledger holds the single trade BUY_YES 100 and the result is its replay
ScenarioA ==
    /\ ResultCurrent
    /\ DOMAIN bets = {0}
    /\ bets[0].size = [mana |-> 100, direction |-> "YES"]

\* 612 - 2^(81 / log2(612))
ScenarioAShares == Fx(612) - Pow2(DivFx(Fx(81), Log2(Fx(612))))

\* C12 as stated: in Scenario A the trade's sharesReceived is 612 - 2^(81/log2(612)),
\* a positive number less than 100.
C12_ScenarioAStated ==
    ScenarioA => /\ result.bets[1].sharesReceived = ScenarioAShares
                 /\ result.bets[1].sharesReceived > 0
                 /\ result.bets[1].sharesReceived < Fx(100)

\* C12 amended: in Scenario A the trade's sharesReceived is 612 - 2^(81/log2(612)),
\* a number greater than 100.
C12_ScenarioA ==
    ScenarioA => /\ result.bets[1].sharesReceived = ScenarioAShares
                 /\ result.bets[1].sharesReceived > Fx(100)

C12_Witness == ScenarioA /\ Len(result.bets) = 1 /\ pool[2] = Fx(612)

\* Ledger b with every timestamp and comment replaced by a fixed one
SizesOnly(b) ==
    [k \in DOMAIN b |-> NewBet(b[k].size.mana, b[k].size.direction, NoComment, "t1", "t1")]

\* The derived fields of a list of replayed bets
DerivedOf(bs) ==
    [i \in 1..Len(bs) |->
        <<bs[i].sharesReceived, bs[i].log2oddsBefore, bs[i].log2oddsAfter>>]

\* The numeric output of a replay r
NumbersOf(r) ==
    [pool |-> r.pool, mana |-> r.ret.mana, yesShares |-> r.ret.yesShares,
     noShares |-> r.ret.noShares, derived |-> DerivedOf(r.ret.bets)]

\* The numbers the view shows are those of the replay r
ShowsNumbersOf(r) ==
    /\ pool = r.pool
    /\ DerivedOf(market.bets) = DerivedOf(r.ret.bets)
    /\ market.log2odds = ComputeState(r.pool).log2odds
    /\ market.userShares = UserShares(r.ret)
    /\ IsDefined(market.pool) =>
          (market.pool.yesShares = r.pool[1] /\ market.pool.noShares = r.pool[2])

\* C13: the numeric output of replay, and the numbers the view shows after a load or
\* an edit, are those of the ledger that has the same (amount, direction) pairs in
\* key order and fixed timestamps and comments: timestamps (in or out of order),
\* comments and the values stored in the loaded document have no influence.
C13_OutputFromSizesOnly ==
    IsDefined(market) =>
        /\ NumbersOf(Replay(bets, pool)) = NumbersOf(Replay(SizesOnly(bets), Genesis))
        /\ ShowsNumbersOf(Replay(SizesOnly(bets), Genesis))

C13_Witness ==
    /\ op.name = "setViewData"
    /\ op.doc.pool = StalePool
    /\ Len(op.doc.bets) = 2
    /\ op.doc.bets[1].timestamp = "t2" /\ op.doc.bets[2].timestamp = "t1"
    /\ op.doc.bets[1].size # op.doc.bets[2].size
    /\ op.doc.bets[1].sharesReceived = Fx(7)
    /\ Len(market.bets) = 2
    /\ market.bets[1].sharesReceived # Fx(7)

\* The snapshot's bets are the ledger's trades, one for one and in key order
ListsLedger ==
    /\ Len(market.bets) = Cardinality(DOMAIN bets)
    /\ \A i \in 1..Len(market.bets) : Deref(bets, market.bets[i]) = bets[i - 1].size

\* C14: whenever the host can call getViewData and a market is present, the snapshot
\* lists the ledger's trades and its derived fields, pool sides, log2odds and
\* userShares are those of a replay of the ledger as it is now.
C14_SnapshotPostReplay ==
    IsDefined(market) =>
        /\ ListsLedger
        /\ IsDefined(market.pool)
        /\ ShowsNumbersOf(Replay(bets, pool))

\* C15: the k of the snapshot's pool is the constant of the engine that computed the
\* snapshot's pool sides, whatever k the loaded document carried.
C15_SnapshotKIsEngineK ==
    (IsDefined(market) /\ IsDefined(market.pool)) => market.pool.k = K

====
